---------------------------- MODULE Spec2Model ----------------------------
(***************************************************************************)
(* A model of s3copier (src/s3copier/s3copier.go): the worker-pool         *)
(* dispatcher CopyWithPrefix, the workers runWorker, the per-object copy   *)
(* CopyTo with its single-shot and multi-part paths, and the storage       *)
(* service as far as the copier's calls observe it.                        *)
(*                                                                         *)
(* Strings that the code inspects byte by byte (object keys, eTag tokens)  *)
(* are sequences of one-character strings.  Every storage call is one      *)
(* atomic step whose outcome (success, failure, the value returned) is     *)
(* chosen nondeterministically.                                            *)
(***************************************************************************)
EXTENDS Integers, Sequences, FiniteSets, TLC

\* ------------------------------------------------------------------ bounds
\* Keys the listing may return (the listing has 0..NumKeys keys).
NumKeys == 3
\* Workers spawned: WORKER_COUNT is 50 in the source, scaled down here.
NumWorkers == 2
\* Keys per listing page.
PageSize == 2
\* Part planner inputs of PlanSpec: objectSize in 1..MaxObjectSize, partSize in 1..MaxPartSize.
MaxObjectSize == 12
MaxPartSize == 5
\* eTag tokens of ETagSpec: every token of length 0..MaxTagLen over TagAlphabet.
MaxTagLen == 4
\* BackpressureSpec: capacities of jobs and done, scaled down from 20000 so that a
\* listing can outgrow them.
SmallJobsCap == 1
SmallDoneCap == 1

\* --------------------------------------------------------------- constants
FIVE_MB == 5 * 1024 * 1024
\* NewS3Copier: partSize: FIVE_MB * 2
ConfiguredPartSize == FIVE_MB * 2
\* make(chan string, 20000), make(chan string, 20000), make(chan error, 1)
JobsCap == 20000
DoneCap == 20000
StatusCap == 1

Quote == "\""
M3u8Suffix == <<".", "m", "3", "u", "8">>
M3u8ContentType == "application/vnd.apple.mpegurl"
\* The content type the source objects carry before any rewrite.
OriginalContentType == "binary/octet-stream"
SrcBucket == <<"s", "r", "c">>
DestBucket == <<"d", "s", "t">>

DigitChars == <<"0", "1", "2", "3", "4", "5", "6", "7", "8", "9">>
Digit(i) == DigitChars[(i % 10) + 1]

\* The keys under the prefix: distinct strings, every other one a playlist manifest.
KeyName(i) == <<"k", Digit(i)>> \o (IF i % 2 = 1 THEN M3u8Suffix ELSE <<>>)

\* The sizes HeadObject may report for an object.
HeadSizes == {0, FIVE_MB, FIVE_MB + 1, 12 * 1024 * 1024}

Workers == 1..NumWorkers

\* ------------------------------------------------------------ pure helpers
\* strings.HasSuffix(s, suffix)
HasSuffix(s, suffix) ==
    /\ Len(s) >= Len(suffix)
    /\ SubSeq(s, Len(s) - Len(suffix) + 1, Len(s)) = suffix

\* S3Object.bucketKeyPath: fmt.Sprintf("%s/%s", s.bucket, s.key)
bucketKeyPath(obj) == obj.bucket \o <<"/">> \o obj.key

S3Object(b, k) == [bucket |-> b, key |-> k]

\* error values: nil, or the error of one storage call for one key
Nil == [kind |-> "nil"]
Err(k, op) == [kind |-> "err", key |-> k, op |-> op]
NoRet == [kind |-> "none"]


\* ------------------------------------------- multi-part locals (lines 149-182)
\* int(math.Ceil(float64(objectSize) / float64(c.partSize))): the float64 quotient
\* is exact enough for the ceiling to be the integer ceiling below 2^53.
PartsSize(objectSize, pSize) ==
    IF objectSize % pSize = 0 THEN objectSize \div pSize ELSE (objectSize \div pSize) + 1

\* LastByte without the clamp to the object's last byte.
LastByteUnclamped(bytePosition, pSize, objectSize) == bytePosition + pSize - 1

\* lastByte := bytePosition + c.partSize - 1; if lastByte > objectSize-1 { lastByte = objectSize - 1 }
LastByte(bytePosition, pSize, objectSize) ==
    IF bytePosition + pSize - 1 > objectSize - 1
    THEN objectSize - 1
    ELSE bytePosition + pSize - 1

\* a nil *s3.CompletedPart
NilPart == [nil |-> TRUE]
CompletedPart(etag, partNum) == [nil |-> FALSE, ETag |-> etag, PartNumber |-> partNum]

\* etag[1 : len(etag)-1] panics when the slice bounds are out of range (len < 2).
SlicePanics(etag) == Len(etag) < 2
EtagSlice(etag) == SubSeq(etag, 2, Len(etag) - 1)

\* objectSize, bytePosition := 0, partNum := 1, partsSize, completedParts := make(.., partsSize)
MpLocals(objectSize, pSize) ==
    [objectSize |-> objectSize,
     bytePosition |-> 0,
     partNum |-> 1,
     partsSize |-> PartsSize(objectSize, pSize),
     completedParts |-> [i \in 1..PartsSize(objectSize, pSize) |-> NilPart]]

\* for bytePosition < objectSize
MpLoopCond(mp) == mp.bytePosition < mp.objectSize

\* completedParts[partNum-1] = ... panics when the index is out of range.
IndexPanics(mp) == mp.partNum - 1 >= Len(mp.completedParts)

\* MpAdvance recording every Completed Part in the manifest's first slot.
MpAdvanceFirstSlot(mp, pSize, etag) ==
    [mp EXCEPT !.completedParts[1] = CompletedPart(EtagSlice(etag), mp.partNum),
               !.partNum = @ + 1,
               !.bytePosition = @ + pSize]

\* completedParts[partNum-1] = &s3.CompletedPart{...}; partNum++; bytePosition += c.partSize
MpAdvance(mp, pSize, etag) ==
    [mp EXCEPT !.completedParts[mp.partNum] = CompletedPart(EtagSlice(etag), mp.partNum),
               !.partNum = @ + 1,
               !.bytePosition = @ + pSize]

NoLocals == [objectSize |-> 0, bytePosition |-> 0, partNum |-> 0, partsSize |-> 0,
             completedParts |-> <<>>]

\* ---------------------------------------------------------------- service
\* The eTag token UploadPartCopy returns for a part: a quoted checksum of the bytes copied.
ServiceETag(key, partNum) == <<Quote, "e", key[2], Digit(partNum), Quote>>
\* The id CreateMultipartUpload returns for an upload of key.
ServiceUploadId(key) == <<"u", key[2]>>

\* ------------------------------------------------------------------ state
VARIABLES
    listing,     \* the keys under the prefix, in listing order
    chanCap,     \* capacities of the three channels
    mainPc,      \* CopyWithPrefix: "spawn", "list", "select", "returned"
    listPos,     \* keys the listing callback has handled
    listErr,     \* ListObjectsV2Pages failed (its error is dropped)
    count,       \* count
    check,       \* check
    result,      \* the value CopyWithPrefix returned
    jobs,        \* channel jobs
    done,        \* channel done
    statusChan,  \* channel statusChan
    wk,          \* per worker: pc, key, err, CopyTo's and copyToMultiPart's locals
    srcCT,       \* service: content type of each source object
    dest,        \* service: each destination object, "absent" or its content type
    calls,       \* history: per key, the storage calls made for it, in order
    copyRet,     \* history: per key, what CopyTo returned
    signalled,   \* history: per key, the signals its worker delivered on a channel
    statusHist,  \* history: the errors placed on statusChan, in order
    received,    \* history: per key, how often the control loop received it on done
    errRecv,     \* history: the errors the control loop received on statusChan
    late,        \* history: keys whose CopyTo returned after CopyWithPrefix returned
    plan,        \* PlanSpec: one run of the part-planning loop
    tagCase      \* ETagSpec: one eTag token and what is stored for it

mainVars == <<mainPc, listPos, listErr, count, check, result>>
chanVars == <<jobs, done, statusChan>>
svcVars == <<srcCT, dest>>
histVars == <<calls, copyRet, signalled, statusHist, received, errRecv, late>>
pureVars == <<plan, tagCase>>
vars == <<listing, chanCap, mainVars, chanVars, wk, svcVars, histVars, pureVars>>

KeySet == {listing[i] : i \in 1..Len(listing)}

IdleWorker(pc) ==
    [pc |-> pc, key |-> <<>>, err |-> Nil, headSize |-> 0, uploadId |-> <<>>,
     contentType |-> "", mp |-> NoLocals]

NoPlan == [pc |-> "off", partSize |-> 0, mp |-> NoLocals, ranges |-> <<>>]
NoTagCase == [pc |-> "off", token |-> <<>>, stored |-> <<>>]

\* CopyWithPrefix is entered: count := 0, the three channels are made and empty.
InitCopier(keys, caps) ==
    /\ listing = keys
    /\ chanCap = caps
    /\ mainPc = "spawn"
    /\ listPos = 0
    /\ listErr = FALSE
    /\ count = 0
    /\ check = 0
    /\ result = NoRet
    /\ jobs = <<>>
    /\ done = <<>>
    /\ statusChan = <<>>
    /\ wk = [w \in Workers |-> IdleWorker("unborn")]
    /\ srcCT = [k \in {keys[i] : i \in 1..Len(keys)} |-> OriginalContentType]
    /\ dest = [k \in {keys[i] : i \in 1..Len(keys)} |-> "absent"]
    /\ calls = [k \in {keys[i] : i \in 1..Len(keys)} |-> <<>>]
    /\ copyRet = [k \in {keys[i] : i \in 1..Len(keys)} |-> NoRet]
    /\ signalled = [k \in {keys[i] : i \in 1..Len(keys)} |-> <<>>]
    /\ statusHist = <<>>
    /\ received = [k \in {keys[i] : i \in 1..Len(keys)} |-> 0]
    /\ errRecv = <<>>
    /\ late = {}

SourceCaps == [jobs |-> JobsCap, done |-> DoneCap, status |-> StatusCap]

Init ==
    /\ \E n \in 0..NumKeys : InitCopier([i \in 1..n |-> KeyName(i)], SourceCaps)
    /\ plan = NoPlan
    /\ tagCase = NoTagCase


\* ------------------------------------------------------- CopyWithPrefix
\* for w := 0; w < WORKER_COUNT; w++ { go c.runWorker(...) }
SpawnWorkers ==
    /\ mainPc = "spawn"
    /\ mainPc' = "list"
    /\ wk' = [w \in Workers |-> IdleWorker("recv")]
    /\ UNCHANGED <<listing, chanCap, listPos, listErr, count, check, result, chanVars,
                   svcVars, histVars, pureVars>>

\* A page is requested before the first key and, while keys remain, after every full page.
PageRequested == listPos = 0 \/ (listPos % PageSize = 0 /\ listPos < Len(listing))

\* ListEnqueue without count++.
ListEnqueueUncounted ==
    /\ mainPc = "list"
    /\ listPos < Len(listing)
    /\ Len(jobs) < chanCap.jobs
    /\ jobs' = Append(jobs, listing[listPos + 1])
    /\ listPos' = listPos + 1
    /\ UNCHANGED <<listing, chanCap, mainPc, listErr, count, check, result, done, statusChan,
                   wk, svcVars, histVars, pureVars>>

\* ListEnqueue with the key put on jobs twice.
ListEnqueueTwice ==
    /\ mainPc = "list"
    /\ listPos < Len(listing)
    /\ Len(jobs) < chanCap.jobs
    /\ jobs' = jobs \o <<listing[listPos + 1], listing[listPos + 1]>>
    /\ count' = count + 1
    /\ listPos' = listPos + 1
    /\ UNCHANGED <<listing, chanCap, mainPc, listErr, check, result, done, statusChan, wk,
                   svcVars, histVars, pureVars>>

\* The listing callback, one key: jobs <- k; count++
ListEnqueue ==
    /\ mainPc = "list"
    /\ listPos < Len(listing)
    /\ Len(jobs) < chanCap.jobs
    /\ jobs' = Append(jobs, listing[listPos + 1])
    /\ count' = count + 1
    /\ listPos' = listPos + 1
    /\ UNCHANGED <<listing, chanCap, mainPc, listErr, check, result, done, statusChan, wk,
                   svcVars, histVars, pureVars>>

\* ListObjectsV2Pages fails on a page request; its error value is not read (line 65).
ListFail ==
    /\ mainPc = "list"
    /\ PageRequested
    /\ listErr' = TRUE
    /\ mainPc' = "select"
    /\ UNCHANGED <<listing, chanCap, listPos, count, check, result, chanVars, wk,
                   svcVars, histVars, pureVars>>

\* ListObjectsV2Pages returns after the last page.
ListEnd ==
    /\ mainPc = "list"
    /\ listPos = Len(listing)
    /\ mainPc' = "select"
    /\ UNCHANGED <<listing, chanCap, listPos, listErr, count, check, result, chanVars, wk,
                   svcVars, histVars, pureVars>>

\* case key := <-done: check++; then if check >= count { return nil }
RecvDone ==
    /\ mainPc = "select"
    /\ done # <<>>
    /\ done' = Tail(done)
    /\ received' = [received EXCEPT ![Head(done)] = @ + 1]
    /\ check' = check + 1
    /\ IF check + 1 >= count
       THEN mainPc' = "returned" /\ result' = Nil
       ELSE UNCHANGED <<mainPc, result>>
    /\ UNCHANGED <<listing, chanCap, listPos, listErr, count, jobs, statusChan, wk,
                   svcVars, calls, copyRet, signalled, statusHist, errRecv, late,
                   pureVars>>

\* RecvErr with the control loop going on to the next select instead of returning.
RecvErrContinues ==
    /\ mainPc = "select"
    /\ statusChan # <<>>
    /\ statusChan' = Tail(statusChan)
    /\ errRecv' = Append(errRecv, Head(statusChan))
    /\ result' = Head(statusChan)
    /\ UNCHANGED <<listing, chanCap, mainPc, listPos, listErr, count, check, jobs, done, wk,
                   svcVars, calls, copyRet, signalled, statusHist, received, late,
                   pureVars>>

\* case err := <-statusChan: return err
RecvErr ==
    /\ mainPc = "select"
    /\ statusChan # <<>>
    /\ statusChan' = Tail(statusChan)
    /\ errRecv' = Append(errRecv, Head(statusChan))
    /\ mainPc' = "returned"
    /\ result' = Head(statusChan)
    /\ UNCHANGED <<listing, chanCap, listPos, listErr, count, check, jobs, done, wk,
                   svcVars, calls, copyRet, signalled, statusHist, received, late,
                   pureVars>>

\* ------------------------------------------------------------ runWorker
Call(op, ok, info) == [op |-> op, ok |-> ok, info |-> info]

Logged(k, c) == calls' = [calls EXCEPT ![k] = Append(@, c)]

\* CopyToReturns with the worker going on to done <- key whatever CopyTo returned.
CopyToReturnsAlwaysDone(w, e) ==
    /\ copyRet' = [copyRet EXCEPT ![wk[w].key] = e]
    /\ late' = IF mainPc = "returned" THEN late \cup {wk[w].key} ELSE late
    /\ wk' = [wk EXCEPT ![w] =
                [IdleWorker("send_done") EXCEPT !.key = wk[w].key, !.err = e]]

\* err := c.CopyTo(src, dest) has returned e: the worker goes on to statusChan <- err
\* (and then returns) or to done <- key.
CopyToReturns(w, e) ==
    /\ copyRet' = [copyRet EXCEPT ![wk[w].key] = e]
    /\ late' = IF mainPc = "returned" THEN late \cup {wk[w].key} ELSE late
    /\ wk' = [wk EXCEPT ![w] =
                [IdleWorker(IF e # Nil THEN "send_err" ELSE "send_done")
                   EXCEPT !.key = wk[w].key, !.err = e]]

\* for key := range jobs
WorkerRecv(w) ==
    /\ wk[w].pc = "recv"
    /\ jobs # <<>>
    /\ jobs' = Tail(jobs)
    /\ wk' = [wk EXCEPT ![w] = [IdleWorker("head") EXCEPT !.key = Head(jobs)]]
    /\ UNCHANGED <<listing, chanCap, mainVars, done, statusChan, svcVars, histVars,
                   pureVars>>

\* done <- key
SendDone(w) ==
    /\ wk[w].pc = "send_done"
    /\ Len(done) < chanCap.done
    /\ done' = Append(done, wk[w].key)
    /\ signalled' = [signalled EXCEPT ![wk[w].key] = Append(@, "done")]
    /\ wk' = [wk EXCEPT ![w] = IdleWorker("recv")]
    /\ UNCHANGED <<listing, chanCap, mainVars, jobs, statusChan, svcVars, calls, copyRet,
                   statusHist, received, errRecv, late, pureVars>>

\* SendErr with the worker going back to range jobs instead of returning.
SendErrAndContinue(w) ==
    /\ wk[w].pc = "send_err"
    /\ Len(statusChan) < chanCap.status
    /\ statusChan' = Append(statusChan, wk[w].err)
    /\ statusHist' = Append(statusHist, wk[w].err)
    /\ signalled' = [signalled EXCEPT ![wk[w].key] = Append(@, "err")]
    /\ wk' = [wk EXCEPT ![w] = IdleWorker("recv")]
    /\ UNCHANGED <<listing, chanCap, mainVars, jobs, done, svcVars, calls, copyRet,
                   received, errRecv, late, pureVars>>

\* statusChan <- err; return
SendErr(w) ==
    /\ wk[w].pc = "send_err"
    /\ Len(statusChan) < chanCap.status
    /\ statusChan' = Append(statusChan, wk[w].err)
    /\ statusHist' = Append(statusHist, wk[w].err)
    /\ signalled' = [signalled EXCEPT ![wk[w].key] = Append(@, "err")]
    /\ wk' = [wk EXCEPT ![w] = IdleWorker("exited")]
    /\ UNCHANGED <<listing, chanCap, mainVars, jobs, done, svcVars, calls, copyRet,
                   received, errRecv, late, pureVars>>

\* ---------------------------------------------------------------- CopyTo
\* What a storage call of CopyTo leaves alone.
CopyFrame ==
    UNCHANGED <<listing, chanCap, mainVars, chanVars, signalled, statusHist, received,
                errRecv, pureVars>>

\* CopyTo goes on to its next storage call.
Continues(w, rec) ==
    /\ wk' = [wk EXCEPT ![w] = rec]
    /\ UNCHANGED <<copyRet, late>>

\* Strategy with the threshold itself sent to the multi-part copy.
StrategyBelowOnly(objectSize) == IF objectSize < FIVE_MB THEN "single" ELSE "mp_head"

\* if objectSize <= FIVE_MB { copyToSinglePart } else { copyToMultiPart }
Strategy(objectSize) == IF objectSize <= FIVE_MB THEN "single" ELSE "mp_head"

\* AfterHead without the content-type rewrite.
AfterHeadNoRewrite(key, objectSize) ==
    IF objectSize <= FIVE_MB THEN "single" ELSE "mp_head"

\* if strings.HasSuffix(src.key, ".m3u8") { ensureContentTypeM3u8 } and then the strategy
AfterHead(key, objectSize) ==
    IF HasSuffix(key, M3u8Suffix) THEN "rewrite" ELSE Strategy(objectSize)

\* head, err := c.headObject(src); if err != nil { return err }
HeadObject(w) ==
    LET key == wk[w].key IN
    /\ wk[w].pc = "head"
    /\ \/ /\ Logged(key, Call("head", FALSE, <<>>))
          /\ CopyToReturns(w, Err(key, "head"))
       \/ \E size \in HeadSizes :
            /\ Logged(key, Call("head", TRUE, <<>>))
            /\ Continues(w, [wk[w] EXCEPT !.pc = AfterHead(key, size), !.headSize = size])
    /\ UNCHANGED svcVars
    /\ CopyFrame

\* ensureContentTypeM3u8: CopyObject of the source onto itself, MetadataDirective REPLACE,
\* ContentType application/vnd.apple.mpegurl.
EnsureContentTypeM3u8(w) ==
    LET key == wk[w].key
        info == [bucket |-> SrcBucket, key |-> key,
                 source |-> bucketKeyPath(S3Object(SrcBucket, key)),
                 contentType |-> M3u8ContentType]
    IN
    /\ wk[w].pc = "rewrite"
    /\ \/ /\ Logged(key, Call("rewrite", FALSE, info))
          /\ CopyToReturns(w, Err(key, "rewrite"))
          /\ UNCHANGED srcCT
       \/ /\ Logged(key, Call("rewrite", TRUE, info))
          /\ srcCT' = [srcCT EXCEPT ![key] = M3u8ContentType]
          /\ Continues(w, [wk[w] EXCEPT !.pc = Strategy(wk[w].headSize)])
    /\ UNCHANGED dest
    /\ CopyFrame

\* copyToSinglePart: CopyObject to the destination; without a MetadataDirective the
\* service copies the source's metadata, its content type included.
CopyToSinglePart(w) ==
    LET key == wk[w].key
        info == [bucket |-> DestBucket, key |-> key,
                 source |-> bucketKeyPath(S3Object(SrcBucket, key))]
    IN
    /\ wk[w].pc = "single"
    /\ \/ /\ Logged(key, Call("copy", FALSE, info))
          /\ CopyToReturns(w, Err(key, "copy"))
          /\ UNCHANGED dest
       \/ /\ Logged(key, Call("copy", TRUE, info))
          /\ dest' = [dest EXCEPT ![key] = srcCT[key]]
          /\ CopyToReturns(w, Nil)
    /\ UNCHANGED srcCT
    /\ CopyFrame

\* ------------------------------------------------------- copyToMultiPart
\* head, err := c.headObject(src); if err != nil { return err }
MpHeadObject(w) ==
    LET key == wk[w].key IN
    /\ wk[w].pc = "mp_head"
    /\ \/ /\ Logged(key, Call("mp_head", FALSE, <<>>))
          /\ CopyToReturns(w, Err(key, "mp_head"))
       \/ \E size \in HeadSizes :
            /\ Logged(key, Call("mp_head", TRUE, <<>>))
            /\ Continues(w, [wk[w] EXCEPT !.pc = "create", !.headSize = 0,
                                          !.mp = [NoLocals EXCEPT !.objectSize = size],
                                          !.contentType = srcCT[key]])
    /\ UNCHANGED svcVars
    /\ CopyFrame

\* where the loop "for bytePosition < objectSize" goes next
LoopPc(mp) == IF MpLoopCond(mp) THEN "part" ELSE "complete"

\* multipartUploadInit, err := c.createMultiPartUpload(dest, head), then lines 149-155
CreateMultiPartUpload(w) ==
    LET key == wk[w].key
        id == ServiceUploadId(key)
        mp == MpLocals(wk[w].mp.objectSize, ConfiguredPartSize)
    IN
    /\ wk[w].pc = "create"
    /\ \/ /\ Logged(key, Call("create", FALSE,
                              [contentType |-> wk[w].contentType, uploadId |-> <<>>]))
          /\ CopyToReturns(w, Err(key, "create"))
       \/ /\ Logged(key, Call("create", TRUE,
                              [contentType |-> wk[w].contentType, uploadId |-> id]))
          /\ Continues(w, [wk[w] EXCEPT !.pc = LoopPc(mp), !.mp = mp, !.uploadId = id])
    /\ UNCHANGED svcVars
    /\ CopyFrame

\* what the part-copy failure path returns: "if err != nil { return nil }" (line 171-173)
PartCopyFailureResult(key) == Nil

\* UploadPartCopy with a failed part copy followed by CompleteMultipartUpload.
UploadPartCopyThenComplete(w) ==
    LET key == wk[w].key
        mp == wk[w].mp
        lastByte == LastByte(mp.bytePosition, ConfiguredPartSize, mp.objectSize)
        etag == ServiceETag(key, mp.partNum)
        info(tag) == [partNum |-> mp.partNum, first |-> mp.bytePosition, last |-> lastByte,
                      uploadId |-> wk[w].uploadId,
                      source |-> bucketKeyPath(S3Object(SrcBucket, key)), etag |-> tag]
    IN
    /\ wk[w].pc = "part"
    /\ \/ /\ Logged(key, Call("part", FALSE, info(<<>>)))
          /\ Continues(w, [wk[w] EXCEPT !.pc = "complete"])
       \/ /\ ~SlicePanics(etag)
          /\ ~IndexPanics(mp)
          /\ Logged(key, Call("part", TRUE, info(etag)))
          /\ Continues(w, [wk[w] EXCEPT
                 !.mp = MpAdvance(mp, ConfiguredPartSize, etag),
                 !.pc = LoopPc(MpAdvance(mp, ConfiguredPartSize, etag))])
    /\ UNCHANGED svcVars
    /\ CopyFrame

\* One iteration of the loop: uploadPartCopy, then the Completed Part is recorded.
\* The eTag slice and the manifest index would panic on a token shorter than two bytes
\* or an index past the manifest; the service's tokens are quoted and PartsSize sizes
\* the manifest, so neither happens here (ETagSpec and PlanSpec cover both).
UploadPartCopy(w) ==
    LET key == wk[w].key
        mp == wk[w].mp
        lastByte == LastByte(mp.bytePosition, ConfiguredPartSize, mp.objectSize)
        etag == ServiceETag(key, mp.partNum)
        info(tag) == [partNum |-> mp.partNum, first |-> mp.bytePosition, last |-> lastByte,
                      uploadId |-> wk[w].uploadId,
                      source |-> bucketKeyPath(S3Object(SrcBucket, key)), etag |-> tag]
    IN
    /\ wk[w].pc = "part"
    /\ \/ /\ Logged(key, Call("part", FALSE, info(<<>>)))
          /\ CopyToReturns(w, PartCopyFailureResult(key))
       \/ /\ ~SlicePanics(etag)
          /\ ~IndexPanics(mp)
          /\ Logged(key, Call("part", TRUE, info(etag)))
          /\ Continues(w, [wk[w] EXCEPT
                 !.mp = MpAdvance(mp, ConfiguredPartSize, etag),
                 !.pc = LoopPc(MpAdvance(mp, ConfiguredPartSize, etag))])
    /\ UNCHANGED svcVars
    /\ CopyFrame

\* The service's reading of an eTag in a manifest: quotes around it are optional.
Unquoted(t) ==
    IF Len(t) >= 2 /\ t[1] = Quote /\ t[Len(t)] = Quote THEN SubSeq(t, 2, Len(t) - 1) ELSE t

\* The service accepts a completion manifest for an upload it created when the manifest
\* is not empty, has no missing entry, lists ascending part numbers, and every entry
\* names a part copied under that upload with that part's eTag.
ManifestAccepted(key, uploadId, manifest) ==
    /\ \E i \in 1..Len(calls[key]) :
         /\ calls[key][i].op = "create" /\ calls[key][i].ok
         /\ calls[key][i].info.uploadId = uploadId
    /\ Len(manifest) >= 1
    /\ \A i \in 1..Len(manifest) :
         /\ ~manifest[i].nil
         /\ i > 1 => (~manifest[i - 1].nil /\ manifest[i - 1].PartNumber < manifest[i].PartNumber)
         /\ \E j \in 1..Len(calls[key]) :
              /\ calls[key][j].op = "part" /\ calls[key][j].ok
              /\ calls[key][j].info.uploadId = uploadId
              /\ calls[key][j].info.partNum = manifest[i].PartNumber
              /\ Unquoted(calls[key][j].info.etag) = Unquoted(manifest[i].ETag)

\* the manifest and upload id passed to CompleteMultipartUpload
CompleteInput(w) == [uploadId |-> wk[w].uploadId, parts |-> wk[w].mp.completedParts]

\* c.s3client.CompleteMultipartUpload(...); if err != nil { return err }; return nil
CompleteMultipartUpload(w) ==
    LET key == wk[w].key
        in == CompleteInput(w)
    IN
    /\ wk[w].pc = "complete"
    /\ \/ /\ Logged(key, Call("complete", FALSE, in))
          /\ CopyToReturns(w, Err(key, "complete"))
          /\ UNCHANGED dest
       \/ /\ ManifestAccepted(key, in.uploadId, in.parts)
          /\ Logged(key, Call("complete", TRUE, in))
          /\ dest' = [dest EXCEPT ![key] = wk[w].contentType]
          /\ CopyToReturns(w, Nil)
    /\ UNCHANGED srcCT
    /\ CopyFrame

\* ------------------------------------------------------------- the copier
MainStep ==
    \/ SpawnWorkers
    \/ ListEnqueue
    \/ ListFail
    \/ ListEnd
    \/ RecvDone
    \/ RecvErr

CopyToStep(w) ==
    \/ HeadObject(w)
    \/ EnsureContentTypeM3u8(w)
    \/ CopyToSinglePart(w)
    \/ MpHeadObject(w)
    \/ CreateMultiPartUpload(w)
    \/ UploadPartCopy(w)
    \/ CompleteMultipartUpload(w)

WorkerStep(w) ==
    \/ WorkerRecv(w)
    \/ CopyToStep(w)
    \/ SendDone(w)
    \/ SendErr(w)

Next ==
    \/ SpawnWorkers
    \/ ListEnqueue
    \/ ListFail
    \/ ListEnd
    \/ RecvDone
    \/ RecvErr
    \/ \E w \in Workers : WorkerRecv(w)
    \/ \E w \in Workers : HeadObject(w)
    \/ \E w \in Workers : EnsureContentTypeM3u8(w)
    \/ \E w \in Workers : CopyToSinglePart(w)
    \/ \E w \in Workers : MpHeadObject(w)
    \/ \E w \in Workers : CreateMultiPartUpload(w)
    \/ \E w \in Workers : UploadPartCopy(w)
    \/ \E w \in Workers : CompleteMultipartUpload(w)
    \/ \E w \in Workers : SendDone(w)
    \/ \E w \in Workers : SendErr(w)

Spec == Init /\ [][Next]_vars

\* Every goroutine that can take a step eventually takes one, and every storage call returns.
Fairness ==
    /\ WF_vars(MainStep)
    /\ \A w \in Workers : WF_vars(WorkerStep(w))

FairSpec == Spec /\ Fairness

\* -------------------------------------------------- CopyWithPrefix, small queues
\* BackpressureSpec is CopyWithPrefix with jobs and done made with small capacities and
\* a listing of one key or of ManyKeys keys, one more than jobs, done and the workers
\* can hold together (20000 + 20000 + 50 + 1 keys for the capacities of the source);
\* the listing itself never fails.
SmallCaps == [jobs |-> SmallJobsCap, done |-> SmallDoneCap, status |-> StatusCap]
ManyKeys == SmallJobsCap + SmallDoneCap + NumWorkers + 1

BackpressureInit ==
    /\ \E n \in {1, ManyKeys} : InitCopier([i \in 1..n |-> KeyName(i)], SmallCaps)
    /\ plan = NoPlan
    /\ tagCase = NoTagCase

\* Next with ListObjectsV2Pages never failing.
BackpressureNext ==
    \/ SpawnWorkers
    \/ ListEnqueue
    \/ ListEnd
    \/ RecvDone
    \/ RecvErr
    \/ \E w \in Workers : WorkerRecv(w)
    \/ \E w \in Workers : HeadObject(w)
    \/ \E w \in Workers : EnsureContentTypeM3u8(w)
    \/ \E w \in Workers : CopyToSinglePart(w)
    \/ \E w \in Workers : MpHeadObject(w)
    \/ \E w \in Workers : CreateMultiPartUpload(w)
    \/ \E w \in Workers : UploadPartCopy(w)
    \/ \E w \in Workers : CompleteMultipartUpload(w)
    \/ \E w \in Workers : SendDone(w)
    \/ \E w \in Workers : SendErr(w)

BackpressureSpec == BackpressureInit /\ [][BackpressureNext]_vars

\* ------------------------------------------------- the part planner alone
\* PlanSpec runs the loop of copyToMultiPart (lines 149-182) with every part copy
\* succeeding, for every objectSize in 0..MaxObjectSize and partSize in 1..MaxPartSize
\* and for a 12 MiB object with the configured part size.
PlanInputs ==
    ((0..MaxObjectSize) \X (1..MaxPartSize)) \cup {<<12 * 1024 * 1024, ConfiguredPartSize>>}

IdleCopier == InitCopier(<<>>, SourceCaps)

PlanInit ==
    /\ \E in \in PlanInputs :
         plan = [pc |-> "loop", partSize |-> in[2], mp |-> MpLocals(in[1], in[2]),
                 ranges |-> <<>>]
    /\ tagCase = NoTagCase
    /\ IdleCopier

\* one iteration: the range requested, then the Completed Part recorded
PlanPart ==
    /\ plan.pc = "loop"
    /\ MpLoopCond(plan.mp)
    /\ plan' =
         [plan EXCEPT
            !.ranges = Append(@, <<plan.mp.bytePosition,
                                   LastByte(plan.mp.bytePosition, plan.partSize,
                                            plan.mp.objectSize)>>),
            !.pc = IF IndexPanics(plan.mp) THEN "panic" ELSE "loop",
            !.mp = IF IndexPanics(plan.mp)
                   THEN @
                   ELSE MpAdvance(@, plan.partSize, ServiceETag(<<"k", "0">>, @.partNum))]
    /\ UNCHANGED <<listing, chanCap, mainVars, chanVars, wk, svcVars, histVars, tagCase>>

\* the loop condition fails: CompleteMultipartUpload is next
PlanExit ==
    /\ plan.pc = "loop"
    /\ ~MpLoopCond(plan.mp)
    /\ plan' = [plan EXCEPT !.pc = "done"]
    /\ UNCHANGED <<listing, chanCap, mainVars, chanVars, wk, svcVars, histVars, tagCase>>

PlanNext ==
    \/ PlanPart
    \/ PlanExit

PlanSpec == PlanInit /\ [][PlanNext]_vars

\* ------------------------------------------------ eTag normalisation alone
\* ETagSpec records one Completed Part (lines 175-179) for every eTag token of length
\* 0..MaxTagLen over TagAlphabet.
TagAlphabet == {Quote, "a", "b"}
Tokens == UNION {[1..l -> TagAlphabet] : l \in 0..MaxTagLen}

ETagInit ==
    /\ \E t \in Tokens : tagCase = [pc |-> "input", token |-> t, stored |-> <<>>]
    /\ plan = NoPlan
    /\ IdleCopier

\* etag := *partResult.CopyPartResult.ETag; completedParts[partNum-1] = &s3.CompletedPart{
\*   ETag: aws.String(etag[1 : len(etag)-1]), ...}
StoreETag ==
    /\ tagCase.pc = "input"
    /\ tagCase' =
         IF SlicePanics(tagCase.token)
         THEN [tagCase EXCEPT !.pc = "panic"]
         ELSE [tagCase EXCEPT
                 !.pc = "stored",
                 !.stored = MpAdvance(MpLocals(1, 1), 1, tagCase.token).completedParts[1].ETag]
    /\ UNCHANGED <<listing, chanCap, mainVars, chanVars, wk, svcVars, histVars, plan>>

ETagNext == StoreETag

ETagSpec == ETagInit /\ [][ETagNext]_vars

\* ===================================================================== claims
Min(a, b) == IF a <= b THEN a ELSE b

RECURSIVE RangeBytes(_, _)
\* the bytes covered by the first n ranges
RangeBytes(ranges, n) ==
    IF n = 0 THEN 0 ELSE RangeBytes(ranges, n - 1) + (ranges[n][2] - ranges[n][1] + 1)

\* C6 (part planning): for objectSize > 0 and partSize > 0 the ranges requested, in order,
\* start at byte 0, are contiguous and non-overlapping, the i-th spans
\* [(i-1)*partSize, min((i-1)*partSize + partSize - 1, objectSize - 1)]; once the loop has
\* ended they cover exactly [0, objectSize), the last one ends at objectSize - 1, and
\* their number N is ceil(objectSize/partSize), i.e. (N-1)*partSize < objectSize <=
\* N*partSize, which is also the length of the manifest allocated; the recording of a
\* Completed Part never indexes past the manifest; 12 MiB with the configured part size
\* gives 2 parts.
C6_PartPlanning ==
    LET size == plan.mp.objectSize
        p == plan.partSize
        R == plan.ranges
        N == Len(R)
    IN
    (plan.pc # "off" /\ size > 0) =>
        /\ plan.pc # "panic"
        /\ \A i \in 1..N :
             /\ R[i][1] = (i - 1) * p
             /\ R[i][2] = Min(R[i][1] + p - 1, size - 1)
             /\ R[i][1] <= R[i][2]
             /\ i = 1 => R[i][1] = 0
             /\ i > 1 => R[i][1] = R[i - 1][2] + 1
        /\ (N - 1) * p < size
        /\ Len(plan.mp.completedParts) * p >= size
        /\ (Len(plan.mp.completedParts) - 1) * p < size
        /\ plan.pc = "done" =>
             /\ N >= 1
             /\ R[N][2] = size - 1
             /\ RangeBytes(R, N) = size
             /\ N * p >= size
             /\ N = Len(plan.mp.completedParts)
             /\ (size = 12 * 1024 * 1024 /\ p = ConfiguredPartSize) => N = 2

\* C6 witness: a finished plan of three parts whose last part is clamped to the object's end.
C6_Witness ==
    /\ plan.pc = "done"
    /\ Len(plan.ranges) = 3
    /\ plan.ranges[3][2] - plan.ranges[3][1] + 1 < plan.partSize
    /\ plan.ranges[3][2] = plan.mp.objectSize - 1

IsQuoted(t) == Len(t) >= 2 /\ t[1] = Quote /\ t[Len(t)] = Quote

\* C9 (eTag normalisation), as claimed: the eTag stored in the Completed Part is the token
\* without its surrounding double quotes when the token is quoted, and the token itself,
\* unmodified, when it is not.
C9_ETagNormalization ==
    tagCase.pc \in {"stored", "panic"} =>
        /\ tagCase.pc = "stored"
        /\ tagCase.stored =
             IF IsQuoted(tagCase.token)
             THEN SubSeq(tagCase.token, 2, Len(tagCase.token) - 1)
             ELSE tagCase.token

\* ------------------------------------------------------ reading the history
\* the positions in key k's call history of the calls of kind op, and the successful ones
Ops(k, op) == {i \in 1..Len(calls[k]) : calls[k][i].op = op}
OkOps(k, op) == {i \in Ops(k, op) : calls[k][i].ok}
AnyCallFailed(k) == \E i \in 1..Len(calls[k]) : ~calls[k][i].ok

\* the keys the listing callback has put on the work queue
Enqueued == {listing[i] : i \in 1..listPos}

\* the keys for which CopyTo returned an error
FailedKeys == {k \in KeySet : copyRet[k].kind = "err"}

\* the object was copied whole: by a single-shot copy, or by an initiated multi-part
\* upload whose every part was copied and whose completion succeeded
FullyCopied(k) ==
    \/ OkOps(k, "copy") # {}
    \/ /\ OkOps(k, "create") # {}
       /\ Ops(k, "part") = OkOps(k, "part")
       /\ \E c \in OkOps(k, "complete") :
            /\ Len(calls[k][c].info.parts) >= 1
            /\ \A n \in 1..Len(calls[k][c].info.parts) :
                 \E j \in OkOps(k, "part") : calls[k][j].info.partNum = n

\* C1 (success means everything was copied), as claimed: whenever CopyWithPrefix has
\* returned nil, every listed key has been copied whole, whichever storage calls failed.
C1_SuccessMeansAllCopied ==
    (mainPc = "returned" /\ result = Nil) => \A k \in Enqueued : FullyCopied(k)

\* C2 (termination), as claimed: CopyWithPrefix eventually returns, for every listing,
\* the empty one included.
C2_EventuallyReturns == <>(mainPc = "returned")

\* C3 (dispatcher abort): once CopyTo has returned an error for some key, a returned
\* CopyWithPrefix has not returned success; and when exactly one key has failed, the
\* value returned is that key's error.
C3_DispatcherAbort ==
    mainPc = "returned" =>
        /\ FailedKeys # {} => result.kind = "err"
        /\ \A k \in KeySet :
             FailedKeys = {k} =>
                /\ result = copyRet[k]
                /\ result.key = k
                /\ \E i \in 1..Len(calls[k]) :
                     ~calls[k][i].ok /\ calls[k][i].op = result.op

\* C3 witness: one key failed and its error was returned after a done signal had been
\* counted, and another key's copy succeeded after the return.
C3_Witness ==
    /\ mainPc = "returned"
    /\ check >= 1
    /\ \E k \in KeySet :
         /\ FailedKeys = {k}
         /\ result = copyRet[k]
         /\ \E k2 \in late : k2 # k /\ copyRet[k2] = Nil /\ FullyCopied(k2)

\* C5 (every failure is surfaced), as claimed: once CopyTo has returned for a key one of
\* whose storage calls failed, it has returned an error, and no done signal is emitted
\* for that key.
C5_EveryFailureSurfaces ==
    \A k \in KeySet :
        (copyRet[k] # NoRet /\ AnyCallFailed(k)) =>
            /\ copyRet[k].kind = "err"
            /\ \A i \in 1..Len(signalled[k]) : signalled[k][i] # "done"

NoCallFailed == \A k \in KeySet : ~AnyCallFailed(k)

\* the listing ran to its end and returned at least one key, and no storage call has failed
CleanRun == ~listErr /\ Len(listing) >= 1 /\ NoCallFailed

C4_AtReturn ==
    /\ check <= count
    /\ (mainPc = "returned" /\ CleanRun) =>
          /\ result = Nil
          /\ check = count
          /\ count = Len(listing)
          /\ \A k \in KeySet : received[k] = 1

ManifestMatches(k, in) ==
    /\ \A i \in 1..Len(in.parts) :
         /\ ~in.parts[i].nil
         /\ in.parts[i].PartNumber = i
         /\ \E j \in OkOps(k, "part") :
              /\ calls[k][j].info.partNum = i
              /\ calls[k][j].info.etag = <<Quote>> \o in.parts[i].ETag \o <<Quote>>
              /\ calls[k][j].info.uploadId = in.uploadId
    /\ Cardinality(OkOps(k, "part")) = Len(in.parts)
    /\ Cardinality(Ops(k, "create")) = 1
    /\ \E c \in OkOps(k, "create") : calls[k][c].info.uploadId = in.uploadId

\* C7 (completion manifest): whenever copyToMultiPart is about to call, or has called,
\* CompleteMultipartUpload, the manifest has one entry per planned part
\* (N = ceil(objectSize/partSize) entries), the i-th entry is not nil, has part number i
\* and the eTag the service returned for part i (without its quotes), and the upload id
\* is the one CreateMultipartUpload returned for the same key.
C7_CompletionManifest ==
    /\ \A w \in Workers :
         wk[w].pc = "complete" =>
            LET in == CompleteInput(w)
                N == Len(in.parts)
                size == wk[w].mp.objectSize
            IN
            /\ N * ConfiguredPartSize >= size
            /\ N >= 1 => (N - 1) * ConfiguredPartSize < size
            /\ ManifestMatches(wk[w].key, in)
    /\ \A k \in KeySet :
         \A c \in Ops(k, "complete") : ManifestMatches(k, calls[k][c].info)

\* C7 witness: CompleteMultipartUpload was called with a manifest of two parts.
C7_Witness ==
    \E k \in KeySet :
        \E c \in OkOps(k, "complete") : Len(calls[k][c].info.parts) = 2

\* the positions of the calls that start a copy strategy
StrategyCalls(k) == Ops(k, "copy") \cup Ops(k, "mp_head")

C8_BySize ==
    /\ \A w \in Workers :
         /\ wk[w].pc = "single" => wk[w].headSize <= FIVE_MB
         /\ wk[w].pc = "mp_head" => wk[w].headSize >= FIVE_MB + 1
    /\ \A k \in KeySet : Cardinality(StrategyCalls(k)) <= 1

\* C8 (strategy boundary), as claimed: the single-shot copy is chosen for every fetched
\* size <= FIVE_MB and the multi-part copy for every size >= FIVE_MB + 1, and exactly one
\* of the two is invoked for every successful metadata fetch.
C8_ExactlyOnePerFetch ==
    /\ C8_BySize
    /\ \A k \in KeySet :
         (copyRet[k] # NoRet /\ OkOps(k, "head") # {}) => Cardinality(StrategyCalls(k)) = 1

\* C8 as amended: the single-shot copy is chosen for every fetched size <= FIVE_MB and
\* the multi-part copy for every size >= FIVE_MB + 1; at most one of the two is invoked
\* per CopyTo, and exactly one for every successful metadata fetch that is not followed
\* by a failed content-type rewrite.
C8_StrategyBoundary ==
    /\ C8_BySize
    /\ \A k \in KeySet :
         (copyRet[k] # NoRet /\ OkOps(k, "head") # {}
            /\ Ops(k, "rewrite") = OkOps(k, "rewrite")) =>
               Cardinality(StrategyCalls(k)) = 1

\* C8 witness: one worker is about to copy an object of exactly FIVE_MB in a single shot
\* while another is about to copy one of FIVE_MB + 1 bytes in parts.
C8_Witness ==
    \E w1, w2 \in Workers :
        /\ wk[w1].pc = "single" /\ wk[w1].headSize = FIVE_MB
        /\ wk[w2].pc = "mp_head" /\ wk[w2].headSize = FIVE_MB + 1

\* C10 (manifest content-type rewrite): for a key ending in .m3u8 the rewrite is the
\* second storage call, right after the successful metadata fetch, it is made once, on the
\* source object, with the manifest MIME type; any later call is made only after the
\* rewrite succeeded; and a destination object that was copied (single-shot or
\* multi-part) has the manifest MIME type.  For other keys no rewrite is made.
C10_ManifestRewrite ==
    \A k \in KeySet :
        LET L == calls[k] IN
        IF HasSuffix(k, M3u8Suffix)
        THEN /\ Ops(k, "rewrite") \subseteq {2}
             /\ Len(L) >= 2 =>
                  /\ L[1].op = "head" /\ L[1].ok
                  /\ L[2].op = "rewrite"
                  /\ L[2].info.bucket = SrcBucket
                  /\ L[2].info.key = k
                  /\ L[2].info.source = SrcBucket \o <<"/">> \o k
                  /\ L[2].info.contentType = M3u8ContentType
             /\ Len(L) >= 3 => L[2].ok
             /\ (copyRet[k] # NoRet /\ OkOps(k, "head") # {}) =>
                  Cardinality(Ops(k, "rewrite")) = 1
             /\ (OkOps(k, "copy") # {} \/ OkOps(k, "complete") # {}) =>
                  dest[k] = M3u8ContentType
             /\ dest[k] \in {"absent", M3u8ContentType}
        ELSE /\ Ops(k, "rewrite") = {}
             /\ dest[k] \in {"absent", OriginalContentType}

\* C10 witness: one manifest was copied in parts and another in a single shot, both
\* destinations carry the manifest MIME type, and a key without the extension was copied.
C10_Witness ==
    \E k1, k2, k3 \in KeySet :
        /\ HasSuffix(k1, M3u8Suffix) /\ OkOps(k1, "complete") # {}
        /\ dest[k1] = M3u8ContentType
        /\ HasSuffix(k2, M3u8Suffix) /\ OkOps(k2, "copy") # {}
        /\ dest[k2] = M3u8ContentType
        /\ ~HasSuffix(k3, M3u8Suffix) /\ dest[k3] = OriginalContentType


\* ---------------------------------------------------------------------- C11
\* The listing callback is inside a page, at jobs <- key, and jobs is full.
ListingBlocked ==
    /\ mainPc = "list"
    /\ listPos < Len(listing)
    /\ ~PageRequested
    /\ Len(jobs) >= chanCap.jobs

\* Worker w cannot take a step and will never receive from jobs: it has returned, or it
\* is at done <- key or statusChan <- err with that channel full.
WorkerStuck(w) ==
    \/ wk[w].pc = "exited"
    \/ wk[w].pc = "send_done" /\ Len(done) >= chanCap.done
    \/ wk[w].pc = "send_err" /\ Len(statusChan) >= chanCap.status

\* C11: backpressure is not a failure. Whenever the listing is blocked on a full jobs
\* queue (the control loop has not started yet, so only workers can make room), some
\* worker can still take a step or receive from jobs: no reachable state has the listing
\* blocked on jobs while every worker is blocked on done or statusChan or has exited.
C11_BackpressureUnblocks ==
    ListingBlocked => \E w \in Workers : ~WorkerStuck(w)


\* ---------------------------------------------------------------------- C12
ReturnedError == mainPc = "returned" /\ result.kind = "err"

\* Keys whose CopyTo returned an error after CopyWithPrefix had returned.
LateFailed == {k \in late : copyRet[k].kind = "err"}

\* C12 (as stated): once CopyWithPrefix has returned an error, at most NumWorkers - 1
\* further objects are completed or failed by the workers (CopyTo returns for at most
\* NumWorkers - 1 keys after the return).
C12_BoundedWorkAfterAbort ==
    ReturnedError => Cardinality(late) <= NumWorkers - 1

\* C12 (amended): once CopyWithPrefix has returned an error, at most NumWorkers - 1
\* further CopyTo calls return an error, because a worker returns at its first error;
\* a worker whose CopyTo returns nil goes on to the keys still in jobs, so the keys
\* finished after the return are bounded only by the keys enqueued.
C12_BoundedFailuresAfterAbort ==
    ReturnedError =>
        /\ Cardinality(LateFailed) <= NumWorkers - 1
        /\ late \subseteq Enqueued
        /\ \A k \in late : copyRet[k] # NoRet

\* CopyWithPrefix returned an error, after which a surviving worker finished more than
\* NumWorkers - 1 keys, as many as allowed of them with an error.
C12_Witness ==
    /\ ReturnedError
    /\ Cardinality(late) > NumWorkers - 1
    /\ Cardinality(LateFailed) = NumWorkers - 1


\* ---------------------------------------------------------------------- C13
\* the copy-range-part calls for key k that come before position i of its log
PartsBefore(k, i) == {j \in Ops(k, "part") : j < i}

\* initiate-multipart at most once, and successfully before any copy-range-part
C13_InitiateFirst(k) ==
    /\ Cardinality(Ops(k, "create")) <= 1
    /\ \A i \in Ops(k, "part") : \E c \in OkOps(k, "create") : c < i

\* the n-th copy-range-part asks for part n, and only after every earlier one succeeded
C13_PartsAscending(k) ==
    \A i \in Ops(k, "part") :
        /\ calls[k][i].info.partNum = Cardinality(PartsBefore(k, i)) + 1
        /\ \A j \in PartsBefore(k, i) : calls[k][j].ok

\* complete-multipart-upload at most once, after every part of the manifest was copied
C13_CompleteLast(k) ==
    /\ Cardinality(Ops(k, "complete")) <= 1
    /\ \A c \in Ops(k, "complete") :
         /\ Ops(k, "part") = PartsBefore(k, c)
         /\ Ops(k, "part") = OkOps(k, "part")
         /\ Cardinality(OkOps(k, "part")) = Len(calls[k][c].info.parts)

\* copyToMultiPart returned nil only after complete-multipart-upload succeeded
C13_SuccessAfterComplete(k) ==
    (Ops(k, "mp_head") # {} /\ copyRet[k] = Nil) => OkOps(k, "complete") # {}

\* C13: multi-part protocol order for one object. Initiate-multipart is called once and
\* before any copy-range-part; the copy-range-part calls are issued one at a time for
\* part 1, 2, ..., each only after the previous one succeeded; complete-multipart-upload
\* is called at most once and only after all parts were copied; copyToMultiPart reports
\* success only after complete-multipart-upload succeeded.
C13_MultipartProtocolOrder ==
    \A k \in KeySet :
        /\ C13_InitiateFirst(k)
        /\ C13_PartsAscending(k)
        /\ C13_CompleteLast(k)
        /\ C13_SuccessAfterComplete(k)


\* ---------------------------------------------------------------------- C14
StorageOps == {"head", "rewrite", "copy", "mp_head", "create", "part", "complete"}

\* the positions of worker w inside CopyTo, each one before a storage call
InCopyTo(w) ==
    wk[w].pc \in {"head", "rewrite", "single", "mp_head", "create", "part", "complete"}

\* C14: stop on first failure, no retry. A failed storage call for an object is the last
\* storage call CopyTo issues for it: the failed call is not repeated, no later part is
\* copied, complete-multipart-upload does not follow a failed part and no abort call is
\* made; a worker that is still inside CopyTo has seen no failed call for its key.
C14_StopOnFirstFailure ==
    /\ \A k \in KeySet : \A i \in 1..Len(calls[k]) :
         /\ calls[k][i].op \in StorageOps
         /\ ~calls[k][i].ok => i = Len(calls[k])
    /\ \A w \in Workers : InCopyTo(w) => ~AnyCallFailed(wk[w].key)

\* The second part copy of an object failed after the first succeeded, CopyTo returned
\* and the worker sent its signal.
C14_Witness ==
    \E k \in KeySet :
        /\ Cardinality(OkOps(k, "part")) = 1
        /\ Cardinality(Ops(k, "part")) = 2
        /\ copyRet[k] # NoRet
        /\ signalled[k] # <<>>
        /\ \A w \in Workers : wk[w].key # k


\* ---------------------------------------------------------------------- C15
\* how many workers hold key k, and how often k is waiting on jobs
Holders(k) == {w \in Workers : wk[w].key = k}
Waiting(k) == {i \in 1..Len(jobs) : jobs[i] = k}

\* A key is on jobs or with one worker, never twice; CopyTo is invoked at most once for it
\* (its first storage call is the metadata fetch); it has at most one signal.
C15_AtMostOnce ==
    \A k \in KeySet :
        /\ Cardinality(Holders(k)) + Cardinality(Waiting(k)) <= 1
        /\ Cardinality(Ops(k, "head")) <= 1
        /\ Len(signalled[k]) <= 1
        /\ (Ops(k, "head") # {} \/ Holders(k) # {}) => k \in Enqueued /\ Waiting(k) = {}

\* the i-th key of the listing has been put on jobs
EnqueuedAt(i) == i <= listPos

\* the i-th key of the listing has exactly one signal delivered on a channel
SignalledOnce(i) == i <= Len(listing) /\ Len(signalled[listing[i]]) = 1

\* the worker holding the i-th key put that key on done, and nothing else was signalled
DoneOnce(i) == i <= Len(listing) /\ signalled[listing[i]] = <<"done">>

\* ListObjectsV2Pages has returned: the keys on jobs are all there will be
ListingOver == mainPc \in {"select", "returned"}

C16_FirstErrorWins ==
    /\ Len(errRecv) <= 1
    /\ errRecv # <<>> =>
         /\ mainPc = "returned"
         /\ result = errRecv[1]
         /\ errRecv[1] = statusHist[1]
    /\ result.kind = "err" =>
         /\ errRecv # <<>>
         /\ \A i \in 2..Len(statusHist) : result # statusHist[i]

\* Two workers placed an error on statusChan and CopyWithPrefix returned the first.
C16_Witness ==
    /\ Len(statusHist) = 2
    /\ statusHist[1] # statusHist[2]
    /\ mainPc = "returned"
    /\ result = statusHist[1]


\* ---------------------------------------------------------------------- C17
\* worker w is in the part-planning loop of copyToMultiPart or has just left it
InPlanner(w) == wk[w].pc \in {"part", "complete"}

\* C17: the part planner is never reached with a zero-size object. Whenever the
\* part-planning loop of copyToMultiPart runs, the object size it uses (the one fetched
\* again at the start of copyToMultiPart) is greater than 0 and greater than the
\* single-shot threshold, so at least one part is planned and the completion manifest is
\* not empty, whatever sizes the two metadata fetches of the object return.
C17_PlannerSizeAboveThreshold ==
    \A w \in Workers :
        InPlanner(w) =>
            /\ wk[w].mp.objectSize > 0
            /\ wk[w].mp.objectSize > FIVE_MB
            /\ wk[w].mp.partsSize >= 1
            /\ Len(wk[w].mp.completedParts) >= 1


\* ---------------------------------------------------------------------- C18
\* C18: a listing failure is fatal for the run. If the paginated listing failed, on the
\* first page or after some keys were enqueued, CopyWithPrefix does not return success.
C18_ListingFailureIsFatal ==
    (listErr /\ mainPc = "returned") => result # Nil

\* ---------------------------------------------------------------------- C19
ReturnedSuccess == mainPc = "returned" /\ result = Nil

\* C19: when CopyWithPrefix returns success every worker it spawned has terminated or
\* eventually terminates; none stays blocked for ever on jobs, done or statusChan.
C19_WorkersTerminate ==
    ReturnedSuccess ~> (\A w \in Workers : wk[w].pc = "exited")

=============================================================================
